---- MODULE Spec2Model ----
(***************************************************************************)
(* Voice e-mail assistant: the conversation context, the visible form, the *)
(* intent handlers, the fallback parser, the send path and the capture     *)
(* worker of src/ui/app.py and src/core/*.py.                              *)
(*                                                                         *)
(* A Python str is a sequence of one-character strings; None and a missing *)
(* dict key are the one-element sequences None and Missing, which no str   *)
(* equals.                                                                 *)
(***************************************************************************)
EXTENDS Integers, Sequences, FiniteSets, TLC

VARIABLES current_context, recipient_var, subject_var, message_text,
          status_text, contacts, last, hist,
          listening, mic_state, threads

vars == <<current_context, recipient_var, subject_var, message_text,
          status_text, contacts, last, hist, listening, mic_state, threads>>

formVars == <<recipient_var, subject_var, message_text>>
voiceVars == <<listening, mic_state, threads>>

(***************************************************************************)
(* Bounds                                                                  *)
(***************************************************************************)
\* longest message body (characters) a CONTINUE_BODY append may build
MaxBodyLen == 11
\* number of COMPOSE_EMAIL analyses in a recorded sequence
MaxTurns == 2
\* number of capture workers alive at the same time
MaxThreads == 2

(***************************************************************************)
(* Python values and str methods                                           *)
(***************************************************************************)
None == <<"None">>
Missing == <<"Missing">>

UpperLetters == <<"A","B","C","D","E","F","G","H","I","J","K","L","M",
                  "N","O","P","Q","R","S","T","U","V","W","X","Y","Z">>
LowerLetters == <<"a","b","c","d","e","f","g","h","i","j","k","l","m",
                  "n","o","p","q","r","s","t","u","v","w","x","y","z">>
Digits == {"0","1","2","3","4","5","6","7","8","9"}
Range(f) == {f[i] : i \in DOMAIN f}
Letters == Range(UpperLetters) \cup Range(LowerLetters)
Whitespace == {" ", "\n", "\t"}

\* truth value of a str-or-None (and of dict.get on a missing key)
Truthy(v) == v # None /\ v # Missing /\ v # <<>>

\* dict.get(key): a missing key reads as None
DictGet(v) == IF v = Missing THEN None ELSE v
\* dict.get(key, default)
DictGetDefault(v, d) == IF v = Missing THEN d ELSE v

\* the lower-case letter of each upper-case letter
LowerOf ==
    [c \in Range(UpperLetters) |->
        LowerLetters[CHOOSE i \in 1..26 : UpperLetters[i] = c]]

LowerChar(c) == IF c \in DOMAIN LowerOf THEN LowerOf[c] ELSE c

\* str.lower()
Lower(s) == [i \in 1..Len(s) |-> LowerChar(s[i])]

RECURSIVE LStrip(_)
LStrip(s) == IF s # <<>> /\ Head(s) \in Whitespace THEN LStrip(Tail(s)) ELSE s

RECURSIVE RStrip(_)
RStrip(s) ==
    IF s # <<>> /\ s[Len(s)] \in Whitespace
    THEN RStrip(SubSeq(s, 1, Len(s) - 1)) ELSE s

\* str.strip()
Strip(s) == RStrip(LStrip(s))

\* sub in s
Contains(s, sub) ==
    \E i \in 0..(Len(s) - Len(sub)) : SubSeq(s, i + 1, i + Len(sub)) = sub

\* index (0-based offset) of the first occurrence of sub in s
FirstOffset(s, sub) ==
    CHOOSE i \in 0..(Len(s) - Len(sub)) :
        /\ SubSeq(s, i + 1, i + Len(sub)) = sub
        /\ \A j \in 0..(i - 1) : SubSeq(s, j + 1, j + Len(sub)) # sub

\* s.split(sep)[1], defined when sep occurs in s
SplitSecond(s, sep) ==
    LET rest == SubSeq(s, FirstOffset(s, sep) + Len(sep) + 1, Len(s))
    IN  IF Contains(rest, sep)
        THEN SubSeq(rest, 1, FirstOffset(rest, sep))
        ELSE rest

\* s.split(" ")[0]
SplitFirst(s) ==
    IF Contains(s, <<" ">>) THEN SubSeq(s, 1, FirstOffset(s, <<" ">>)) ELSE s

(***************************************************************************)
(* EmailSender.is_valid_email: re.match of                                 *)
(*   ^[a-zA-Z0-9._%+-]+@[a-zA-Z0-9.-]+\.[a-zA-Z]{2,}$                      *)
(***************************************************************************)
LocalChars == Letters \cup Digits \cup {".", "_", "%", "+", "-"}
DomainChars == Letters \cup Digits \cup {".", "-"}

EmailPatternMatches(t) ==
    \E i \in 1..Len(t) : \E j \in 1..Len(t) :
        /\ t[i] = "@" /\ t[j] = "."
        /\ i > 1 /\ j > i + 1 /\ Len(t) - j >= 2
        /\ \A k \in 1..(i - 1) : t[k] \in LocalChars
        /\ \A k \in (i + 1)..(j - 1) : t[k] \in DomainChars
        /\ \A k \in (j + 1)..Len(t) : t[k] \in Letters

\* "$" also matches just before one trailing newline
is_valid_email(email) ==
    \/ EmailPatternMatches(email)
    \/ /\ email # <<>> /\ email[Len(email)] = "\n"
       /\ EmailPatternMatches(SubSeq(email, 1, Len(email) - 1))

(***************************************************************************)
(* Intents, analyses, utterances                                           *)
(***************************************************************************)
COMPOSE_EMAIL == <<"COMPOSE_EMAIL">>
CONTINUE_BODY == <<"CONTINUE_BODY">>
SEND_EMAIL == <<"SEND_EMAIL">>
CLEAR_FORM == <<"CLEAR_FORM">>
ADD_CONTACT == <<"ADD_CONTACT">>
HELP == <<"HELP">>
UNKNOWN == <<"UNKNOWN">>
\* an intent string the dispatch table does not list
OTHER_INTENT == <<"SOMETHING_ELSE">>

PyTrue == <<"True">>
PyFalse == <<"False">>

\* bool(v) of a JSON value used as a condition
IsTrue(v) == Truthy(v) /\ v # PyFalse

Bob == <<"B","o","b">>
bob == <<"b","o","b">>
BobAddr == <<"b","o","b","@","x",".","c","o">>
AnnAddr == <<"a","@","b",".","c","o">>
Hi == <<"H","i">>
Hello == <<"H","e","l","l","o">>
world == <<"w","o","r","l","d">>

\* per field: the ways a field is absent or empty, and populated values
RecipientValues == {Missing, Bob, AnnAddr}
SubjectValues == {None, Hi}
ComposeBodyValues == {<<>>, Hello}
ContinueBodyValues == {Missing, None, world}
ContinueValues == {Missing, PyTrue, PyFalse}

NoFields == [recipient |-> Missing, subject |-> Missing, body |-> Missing,
             continue_previous |-> Missing]

\* what EmailAssistant.analyze_command hands back:
\*   kind "none"    None (request failed, JSON did not parse) or falsy JSON
\*   kind "nondict" truthy JSON that is no object (a list, a number, a string)
\*   kind "dict"    a JSON object; intent may be missing
ComposeAnalyses ==
    {[kind |-> "dict", intent |-> COMPOSE_EMAIL, recipient |-> r, subject |-> s,
      body |-> b, continue_previous |-> Missing] :
        r \in RecipientValues, s \in SubjectValues, b \in ComposeBodyValues}

ContinueAnalyses ==
    {[kind |-> "dict", intent |-> CONTINUE_BODY, recipient |-> Missing,
      subject |-> Missing, body |-> b, continue_previous |-> c] :
        b \in ContinueBodyValues, c \in ContinueValues}

PlainAnalyses ==
    {[kind |-> "dict", intent |-> i] @@ NoFields :
        i \in {SEND_EMAIL, CLEAR_FORM, ADD_CONTACT, HELP, UNKNOWN,
               OTHER_INTENT, Missing}}

NoAnalysis == [kind |-> "none", intent |-> Missing] @@ NoFields
NonDictAnalysis == [kind |-> "nondict", intent |-> Missing] @@ NoFields

Analyses == ComposeAnalyses \cup ContinueAnalyses \cup PlainAnalyses
              \cup {NoAnalysis, NonDictAnalysis}

SendEmailToBob == <<"S","e","n","d"," ","e","m","a","i","l"," ","t","o"," ",
                    "B","o","b">>
SendIt == <<"s","e","n","d"," ","i","t">>
ClearCmd == <<"c","l","e","a","r">>
StartOver == <<"S","t","a","r","t"," ","o","v","e","r">>
HelloCmd == <<"h","e","l","l","o">>
Commands == {SendEmailToBob, SendIt, ClearCmd, StartOver, HelloCmd}
\* the utterance recorded for a turn whose analysis succeeded (it is not read)
AnyCommand == <<>>

\* the user's answer to the confirmation dialog and the transport's outcome
Declined == [confirm |-> FALSE, transport_ok |-> FALSE]
Envs == {Declined, [confirm |-> TRUE, transport_ok |-> TRUE],
         [confirm |-> TRUE, transport_ok |-> FALSE]}

(***************************************************************************)
(* Application state as a value, so that handlers compose as in the code   *)
(***************************************************************************)
DefaultContext ==
    [recipient |-> None, subject |-> None, partial_body |-> None,
     in_conversation |-> FALSE, last_intent |-> None]

\* the calls made to EmailSender.send_email during one operation
NoCall == <<>>

\* the live application state with the per-operation observations cleared
App ==
    [current_context |-> current_context, recipient_var |-> recipient_var,
     subject_var |-> subject_var, message_text |-> message_text,
     status_text |-> status_text, contacts |-> contacts,
     sent |-> NoCall, dialog |-> "none", exc |-> FALSE]

\* Text.get(1.0, END): the content and the newline Tk appends
MessageGet(s) == s.message_text \o <<"\n">>

\* self.contacts.get(key, default)
ContactsGet(c, key, default) == IF key \in DOMAIN c THEN c[key] ELSE default

(***************************************************************************)
(* Form and context helpers (src/ui/app.py)                                *)
(***************************************************************************)
\* a reset that only leaves the conversation and keeps the fields
reset_flag_only(s) == [s EXCEPT !.current_context.in_conversation = FALSE]

reset_conversation_context(s) == [s EXCEPT !.current_context = DefaultContext]

clear_form(s) ==
    [s EXCEPT !.recipient_var = <<>>, !.subject_var = <<>>,
              !.message_text = <<>>]

\* the message of _provide_next_step_guidance for a list of missing fields
RECURSIVE JoinComma(_)
JoinComma(names) ==
    IF Len(names) = 0 THEN ""
    ELSE IF Len(names) = 1 THEN names[1]
    ELSE names[1] \o ", " \o JoinComma(Tail(names))

ReadyStatus == "Your email is ready to send. Say 'send it' when ready."

\* guidance computed from the conversation context instead of the form
guidance_from_context(s) ==
    LET missing ==
            (IF ~Truthy(s.current_context.recipient)
             THEN <<"recipient">> ELSE <<>>)
         \o (IF ~Truthy(s.current_context.subject)
             THEN <<"subject">> ELSE <<>>)
         \o (IF ~Truthy(s.current_context.partial_body)
             THEN <<"message body">> ELSE <<>>)
    IN  IF missing # <<>>
        THEN [s EXCEPT !.status_text = "I need your " \o JoinComma(missing)]
        ELSE [s EXCEPT !.status_text = ReadyStatus]

provide_next_step_guidance(s) ==
    LET missing ==
            (IF s.recipient_var = <<>> THEN <<"recipient">> ELSE <<>>)
         \o (IF s.subject_var = <<>> THEN <<"subject">> ELSE <<>>)
         \o (IF Strip(MessageGet(s)) = <<>> THEN <<"message body">> ELSE <<>>)
    IN  IF missing # <<>>
        THEN [s EXCEPT !.status_text = "I need your " \o JoinComma(missing)]
        ELSE [s EXCEPT !.status_text = ReadyStatus]

(***************************************************************************)
(* Intent handlers                                                         *)
(***************************************************************************)
ComposeRecipient(s, analysis) ==
    IF Truthy(DictGet(analysis.recipient))
    THEN [s EXCEPT !.current_context.recipient = analysis.recipient,
                   !.recipient_var =
                       ContactsGet(s.contacts, Lower(analysis.recipient),
                                   analysis.recipient)]
    ELSE s

\* a subject update without the test that the analysis has a subject
ComposeSubjectUnguarded(s, analysis) ==
    [s EXCEPT !.current_context.subject = DictGet(analysis.subject),
              !.subject_var = IF Truthy(analysis.subject)
                              THEN analysis.subject ELSE <<>>]

ComposeSubject(s, analysis) ==
    IF Truthy(DictGet(analysis.subject))
    THEN [s EXCEPT !.current_context.subject = analysis.subject,
                   !.subject_var = analysis.subject]
    ELSE s

ComposeBody(s, analysis) ==
    IF Truthy(DictGet(analysis.body))
    THEN [s EXCEPT !.current_context.partial_body = analysis.body,
                   !.message_text = analysis.body]
    ELSE s

handle_compose_intent(s, analysis) ==
    provide_next_step_guidance(
        ComposeBody(ComposeSubject(ComposeRecipient(s, analysis), analysis),
                    analysis))

\* an append that joins the texts without the separating space
continue_body_no_space(s, analysis) ==
    LET current_text == Strip(MessageGet(s))
        body == DictGetDefault(analysis.body, <<>>)
        updated(t) ==
            [s EXCEPT !.message_text = t, !.current_context.partial_body = t,
                      !.status_text = "Message updated"]
    IN  IF IsTrue(DictGetDefault(analysis.continue_previous, PyFalse))
           /\ current_text # <<>>
        THEN IF body = None
             THEN [s EXCEPT !.exc = TRUE]
             ELSE updated(current_text \o body)
        ELSE IF body = None
             THEN [s EXCEPT !.message_text = <<>>, !.exc = TRUE]
             ELSE updated(body)

\* analysis.get("body", ""): a null body is None, which str + None and
\* Text.insert(END, None) both reject (TypeError, TclError)
handle_continue_body_intent(s, analysis) ==
    LET current_text == Strip(MessageGet(s))
        body == DictGetDefault(analysis.body, <<>>)
        updated(t) ==
            [s EXCEPT !.message_text = t, !.current_context.partial_body = t,
                      !.status_text = "Message updated"]
    IN  IF IsTrue(DictGetDefault(analysis.continue_previous, PyFalse))
           /\ current_text # <<>>
        THEN IF body = None
             THEN [s EXCEPT !.exc = TRUE]
             ELSE updated(current_text \o <<" ">> \o body)
        ELSE IF body = None
             THEN [s EXCEPT !.message_text = <<>>, !.exc = TRUE]
             ELSE updated(body)

handle_unknown_intent(s) ==
    IF ~s.current_context.in_conversation
    THEN [s EXCEPT !.status_text = "Try 'Send an email to [name]'"]
    ELSE [s EXCEPT !.status_text = "Please try again"]

show_help(s) == [s EXCEPT !.status_text = "Help info in log"]

\* opens the modal dialog; the contact is stored later by save_contact
show_add_contact_dialog(s) == s

(***************************************************************************)
(* Send path                                                               *)
(***************************************************************************)
\* the form after validation and whether validation passed
validate_email_form(s, recipient, body) ==
    IF recipient = <<>>
    THEN [ok |-> FALSE, s |-> [s EXCEPT !.dialog = "Recipient is required"]]
    ELSE IF ~is_valid_email(recipient)
              /\ ~Truthy(ContactsGet(s.contacts, Lower(recipient), None))
    THEN [ok |-> FALSE, s |-> [s EXCEPT !.dialog = "Invalid email address"]]
    ELSE LET s1 == IF ~is_valid_email(recipient)
                   THEN [s EXCEPT !.recipient_var =
                                      s.contacts[Lower(recipient)]]
                   ELSE s
         IN  IF body = <<>>
             THEN [ok |-> FALSE,
                   s |-> [s1 EXCEPT !.dialog = "Email body cannot be empty"]]
             ELSE [ok |-> TRUE, s |-> s1]

send_email(s, env) ==
    LET recipient == Strip(s.recipient_var)
        subject == Strip(s.subject_var)
        body == Strip(MessageGet(s))
        v == validate_email_form(s, recipient, body)
        called == [v.s EXCEPT !.sent = Append(v.s.sent,
                      [to |-> recipient, subject |-> subject, body |-> body])]
    IN  IF ~v.ok THEN v.s
        ELSE IF ~env.confirm THEN [v.s EXCEPT !.dialog = "Confirm"]
        ELSE IF env.transport_ok
        THEN clear_form([called EXCEPT !.dialog = "Email sent successfully!"])
        ELSE [called EXCEPT !.dialog = "Failed to send email"]

handle_send_intent(s, env) == reset_conversation_context(send_email(s, env))

handle_clear_intent(s) ==
    reset_conversation_context(
        [clear_form(s) EXCEPT !.status_text = "Form cleared"])

(***************************************************************************)
(* Dispatch, fallback parser and the turn                                  *)
(***************************************************************************)
handle_intent(s, analysis, env) ==
    LET intent == analysis.intent
    IN  IF intent = COMPOSE_EMAIL THEN handle_compose_intent(s, analysis)
        ELSE IF intent = CONTINUE_BODY
        THEN handle_continue_body_intent(s, analysis)
        ELSE IF intent = SEND_EMAIL THEN handle_send_intent(s, env)
        ELSE IF intent = CLEAR_FORM THEN handle_clear_intent(s)
        ELSE IF intent = ADD_CONTACT THEN show_add_contact_dialog(s)
        ELSE IF intent = HELP THEN show_help(s)
        ELSE handle_unknown_intent(s)

kwSend == <<"s","e","n","d">>
kwEmail == <<"e","m","a","i","l">>
kwTo == <<"t","o">>
kwClear == <<"c","l","e","a","r">>
kwStartOver == <<"s","t","a","r","t"," ","o","v","e","r">>

\* a parser that tries the send of an existing draft before the recipient
\* extraction
FallbackRuleSendFirst(s, command) ==
    LET command_lower == Lower(command)
    IN  IF Contains(command_lower, kwSend) /\ s.recipient_var # <<>>
        THEN 2
        ELSE IF Contains(command_lower, kwSend)
                /\ Contains(command_lower, kwEmail)
        THEN 1
        ELSE IF Contains(command_lower, kwClear)
                \/ Contains(command_lower, kwStartOver)
        THEN 3
        ELSE 4

\* the branch of _handle_command_fallback an utterance takes
FallbackRule(s, command) ==
    LET command_lower == Lower(command)
    IN  IF Contains(command_lower, kwSend) /\ Contains(command_lower, kwEmail)
        THEN 1
        ELSE IF Contains(command_lower, kwSend) /\ s.recipient_var # <<>>
        THEN 2
        ELSE IF Contains(command_lower, kwClear)
                \/ Contains(command_lower, kwStartOver)
        THEN 3
        ELSE 4

\* a parser whose clear branch empties the form and keeps the context
fallback_clear_keeps_context(s, command, env) ==
    LET command_lower == Lower(command)
        rule == FallbackRule(s, command)
    IN  IF rule = 1
        THEN IF Contains(command_lower, kwTo)
             THEN [s EXCEPT !.recipient_var =
                                SplitFirst(Strip(SplitSecond(command_lower,
                                                             kwTo))),
                            !.status_text = "I need more details"]
             ELSE s
        ELSE IF rule = 2 THEN send_email(s, env)
        ELSE IF rule = 3
        THEN [clear_form(s) EXCEPT !.status_text = "Form cleared"]
        ELSE [s EXCEPT !.status_text = "I didn't understand that"]

handle_command_fallback(s, command, env) ==
    LET command_lower == Lower(command)
        rule == FallbackRule(s, command)
    IN  IF rule = 1
        THEN IF Contains(command_lower, kwTo)
             THEN [s EXCEPT !.recipient_var =
                                SplitFirst(Strip(SplitSecond(command_lower,
                                                             kwTo))),
                            !.status_text = "I need more details"]
             ELSE s
        ELSE IF rule = 2 THEN send_email(s, env)
        ELSE IF rule = 3
        THEN reset_conversation_context(
                 [clear_form(s) EXCEPT !.status_text = "Form cleared"])
        ELSE [s EXCEPT !.status_text = "I didn't understand that"]

\* lines 356-361: the context is marked before the handler runs
AnalysisBranch(s, analysis, env) ==
    LET s1 == [s EXCEPT !.current_context.in_conversation = TRUE]
    IN  IF analysis.intent = Missing
        THEN [s1 EXCEPT !.exc = TRUE]
        ELSE handle_intent(
                 [s1 EXCEPT !.current_context.last_intent = analysis.intent],
                 analysis, env)

\* a turn in which a failed analysis raises instead of reaching the fallback
process_without_fallback(s, command, analysis, env) ==
    LET s0 == [s EXCEPT !.status_text = "Processing..."]
        r == IF analysis.kind = "dict"
             THEN AnalysisBranch(s0, analysis, env)
             ELSE [s0 EXCEPT !.exc = TRUE]
    IN  IF r.exc THEN [r EXCEPT !.status_text = "Error occurred"] ELSE r

process_voice_command(s, command, analysis, env) ==
    LET s0 == [s EXCEPT !.status_text = "Processing..."]
        r == IF analysis.kind = "nondict" THEN [s0 EXCEPT !.exc = TRUE]
             ELSE IF analysis.kind = "dict"
             THEN AnalysisBranch(s0, analysis, env)
             ELSE handle_command_fallback(s0, command, env)
    IN  IF r.exc THEN [r EXCEPT !.status_text = "Error occurred"] ELSE r

(***************************************************************************)
(* State machine: one action per user operation or voice turn              *)
(***************************************************************************)
NoTurn == [op |-> "init", analysis |-> NoAnalysis, command |-> AnyCommand,
           sent |-> NoCall, dialog |-> "none", exc |-> FALSE]

InitialContacts == {<<>>, (bob :> BobAddr)}

InitApp ==
    /\ current_context = DefaultContext
    /\ recipient_var = <<>>
    /\ subject_var = <<>>
    /\ message_text = <<>>
    /\ status_text = "Ready"
    /\ contacts \in InitialContacts
    /\ last = NoTurn

InitVoice ==
    /\ listening = FALSE
    /\ mic_state = "Start Listening"
    /\ threads = [t \in 1..MaxThreads |-> "idle"]

Init == InitApp /\ InitVoice /\ hist = <<>>

\* the application state after an operation, with what the operation did
Commit(r, op, analysis, command) ==
    /\ Len(r.message_text) <= MaxBodyLen
    /\ current_context' = r.current_context
    /\ recipient_var' = r.recipient_var
    /\ subject_var' = r.subject_var
    /\ message_text' = r.message_text
    /\ status_text' = r.status_text
    /\ contacts' = r.contacts
    /\ last' = [op |-> op, analysis |-> analysis, command |-> command,
                sent |-> r.sent, dialog |-> r.dialog, exc |-> r.exc]

\* a voice turn whose analysis came back as JSON
AnalysedTurn ==
    \E analysis \in Analyses \ {NoAnalysis} :
    \E env \in (IF analysis.intent = SEND_EMAIL THEN Envs ELSE {Declined}) :
    \E r \in {process_voice_command(App, AnyCommand, analysis, env)} :
        /\ Commit(r, "voice", analysis, AnyCommand)
        /\ UNCHANGED <<hist, voiceVars>>

\* a voice turn whose analysis failed: the fallback parser reads the utterance
FallbackTurn ==
    \E command \in Commands :
    \E env \in (IF FallbackRule(App, command) = 2 THEN Envs ELSE {Declined}) :
    \E r \in {process_voice_command(App, command, NoAnalysis, env)} :
        /\ Commit(r, "voice", NoAnalysis, command)
        /\ UNCHANGED <<hist, voiceVars>>

SendButton ==
    \E env \in Envs : \E r \in {send_email(App, env)} :
        /\ Commit(r, "send_button", NoAnalysis, AnyCommand)
        /\ UNCHANGED <<hist, voiceVars>>

ClearButton ==
    /\ Commit(clear_form(App), "clear_button", NoAnalysis, AnyCommand)
    /\ UNCHANGED <<hist, voiceVars>>

Next == AnalysedTurn \/ FallbackTurn \/ SendButton \/ ClearButton

Spec == Init /\ [][Next]_vars

(***************************************************************************)
(* Capture workers (src/core/voice.py) and the microphone button           *)
(*                                                                         *)
(* threads[t] is the position of worker t in _listen_for_voice:            *)
(*   "idle"      no thread in this slot                                    *)
(*   "setup"     opening the microphone, calibrating (lines 37-42)         *)
(*   "loop"      at the test of while self.listening (line 45)             *)
(*   "listen"    in recognizer.listen (line 48)                            *)
(*   "recognize" in recognizer.recognize_google (line 52)                  *)
(*   "turn"      in command_callback = process_voice_command (line 56)     *)
(***************************************************************************)
Workers == 1..MaxThreads

appVars == <<current_context, recipient_var, subject_var, message_text,
             contacts, last>>

\* VoiceHandler.stop_listening
stop_listening ==
    /\ listening' = FALSE
    /\ UNCHANGED threads

\* VoiceHandler.start_listening: a new thread each time
start_listening ==
    /\ listening' = TRUE
    /\ \E t \in Workers :
           /\ threads[t] = "idle"
           /\ \A u \in Workers : u < t => threads[u] # "idle"
           /\ threads' = [threads EXCEPT ![t] = "setup"]

toggle_listening ==
    /\ IF listening
       THEN /\ stop_listening
            /\ mic_state' = "Start Listening"
            /\ status_text' = "Ready"
       ELSE /\ mic_state' = "Stop Listening"
            /\ status_text' = "Listening..."
            /\ start_listening
    /\ UNCHANGED <<appVars, hist>>

\* lines 37-42 and 76-80: the microphone opens, or the setup raises
WorkerSetup(t) ==
    /\ threads[t] = "setup"
    /\ \/ /\ threads' = [threads EXCEPT ![t] = "loop"]
          /\ UNCHANGED <<status_text, listening>>
       \/ /\ threads' = [threads EXCEPT ![t] = "idle"]
          /\ status_text' = "Ready"
          /\ listening' = FALSE
    /\ UNCHANGED <<appVars, hist, mic_state>>

\* a loop that starts the next phrase without testing the flag
WorkerLoopIgnoresFlag(t) ==
    /\ threads[t] = "loop"
    /\ threads' = [threads EXCEPT ![t] = "listen"]
    /\ status_text' = "Listening..."
    /\ UNCHANGED <<appVars, hist, mic_state, listening>>

\* line 45-47
WorkerLoop(t) ==
    /\ threads[t] = "loop"
    /\ IF listening
       THEN /\ threads' = [threads EXCEPT ![t] = "listen"]
            /\ status_text' = "Listening..."
       ELSE /\ threads' = [threads EXCEPT ![t] = "idle"]
            /\ UNCHANGED status_text
    /\ UNCHANGED <<appVars, hist, mic_state, listening>>

\* line 48-49, 58-61, 72-75
WorkerListen(t) ==
    /\ threads[t] = "listen"
    /\ \/ /\ threads' = [threads EXCEPT ![t] = "recognize"]
          /\ status_text' = "Processing speech..."
       \/ /\ threads' = [threads EXCEPT ![t] = "loop"]
          /\ status_text' = IF listening
                            THEN "No speech detected. Still listening..."
                            ELSE status_text
       \/ /\ threads' = [threads EXCEPT ![t] = "loop"]
          /\ status_text' = "Error occurred"
    /\ UNCHANGED <<appVars, hist, mic_state, listening>>

\* line 52-56 and 62-71: the text is recognized and the callback entered
\* (line 344), or recognition fails
WorkerRecognize(t) ==
    /\ threads[t] = "recognize"
    /\ \/ /\ threads' = [threads EXCEPT ![t] = "turn"]
          /\ status_text' = "Processing..."
          /\ UNCHANGED listening
       \/ /\ threads' = [threads EXCEPT ![t] = "loop"]
          /\ status_text' = IF listening
                            THEN "Didn't catch that. Please try again..."
                            ELSE status_text
          /\ UNCHANGED listening
       \/ /\ threads' = [threads EXCEPT ![t] = "loop"]
          /\ status_text' = "Speech service unavailable"
          /\ listening' = FALSE
    /\ UNCHANGED <<appVars, hist, mic_state>>

\* the utterances and analyses the capture workers deliver
WorkerAnalyses ==
    {[kind |-> "dict", intent |-> COMPOSE_EMAIL, recipient |-> AnnAddr,
      subject |-> Hi, body |-> Hello, continue_previous |-> Missing],
     [kind |-> "dict", intent |-> SEND_EMAIL] @@ NoFields,
     NoAnalysis}

\* line 56 returns: the turn of process_voice_command has run
WorkerTurn(t) ==
    /\ threads[t] = "turn"
    /\ threads' = [threads EXCEPT ![t] = "loop"]
    /\ UNCHANGED <<hist, mic_state, listening>>
    /\ \E analysis \in WorkerAnalyses :
       \E env \in (IF analysis.intent = SEND_EMAIL THEN Envs ELSE {Declined}) :
       \E command \in (IF analysis = NoAnalysis
                        THEN {ClearCmd, SendEmailToBob}
                        ELSE {AnyCommand}) :
       \E r \in {process_voice_command(App, command, analysis, env)} :
           Commit(r, "voice", analysis, command)

WorkerStep ==
    \E t \in Workers :
        \/ WorkerSetup(t)
        \/ WorkerLoop(t)
        \/ WorkerListen(t)
        \/ WorkerRecognize(t)
        \/ WorkerTurn(t)

NextVoice == toggle_listening \/ WorkerStep

SpecVoice == Init /\ [][NextVoice]_vars

\* the executions of process_voice_command in progress
ActiveTurns == {t \in Workers : threads[t] = "turn"}

(***************************************************************************)
(* COMPOSE_EMAIL sequences: the session plays only COMPOSE_EMAIL turns and *)
(* hist records their analyses in order                                    *)
(***************************************************************************)
ComposeStep ==
    /\ Len(hist) < MaxTurns
    /\ \E analysis \in ComposeAnalyses :
       \E r \in {process_voice_command(App, AnyCommand, analysis, Declined)} :
           /\ Commit(r, "voice", analysis, AnyCommand)
           /\ hist' = Append(hist, analysis)
    /\ UNCHANGED voiceVars

SpecCompose == Init /\ [][ComposeStep]_vars

\* the value an analysis sequence most recently populated a field with
RECURSIVE LastSet(_, _)
LastSet(h, f) ==
    IF h = <<>> THEN None
    ELSE IF Truthy(h[Len(h)][f]) THEN h[Len(h)][f]
    ELSE LastSet(SubSeq(h, 1, Len(h) - 1), f)

\* what a form field shows for a context value
Shown(v) == IF v = None THEN <<>> ELSE v

Draft(s) ==
    <<s.current_context, s.recipient_var, s.subject_var, s.message_text>>

(***************************************************************************)
(* Claims                                                                  *)
(***************************************************************************)
IsVoice(l) == l.op = "voice"
IsIntentTurn(l, intent) ==
    l.op = "voice" /\ l.analysis.kind = "dict" /\ l.analysis.intent = intent
IsFallbackTurn(l) == l.op = "voice" /\ l.analysis.kind = "none"

\* C1: outside a conversation (in_conversation False) the context holds no
\* data: recipient, subject, partial_body and last_intent are all None.
C1_NoOrphanedData ==
    ~current_context.in_conversation =>
        /\ current_context.recipient = None
        /\ current_context.subject = None
        /\ current_context.partial_body = None
        /\ current_context.last_intent = None

\* a SEND_EMAIL turn has reset a context that held a recipient, and the form
\* still shows the draft
C1_Witness ==
    /\ IsIntentTurn(last, SEND_EMAIL)
    /\ ~current_context.in_conversation
    /\ recipient_var # <<>>
    /\ message_text # <<>>

\* C2: after a voice turn whose action is a send or a clear (SEND_EMAIL,
\* CLEAR_FORM, fallback rule 2 or 3) the context is back to its default.
C2_SendOrClearResets ==
    [][(\/ IsIntentTurn(last', SEND_EMAIL)
        \/ IsIntentTurn(last', CLEAR_FORM)
        \/ /\ IsFallbackTurn(last')
           /\ FallbackRule(App, last'.command) \in {2, 3})
       => current_context' = DefaultContext]_vars

\* C3: an UNKNOWN analysis processed with no draft in progress gives the
\* first-turn guidance, with a draft in progress the in-context guidance.
C3_UnknownGuidance ==
    [][IsIntentTurn(last', UNKNOWN) =>
          status_text' = IF ~current_context.in_conversation
                         THEN "Try 'Send an email to [name]'"
                         ELSE "Please try again"]_vars

\* C4: at most one execution of process_voice_command is active at a time.
C4_OneTurnAtATime == Cardinality(ActiveTurns) <= 1

\* the transport was called during the last operation and reported failure
TransportFailed(l) == l.sent # NoCall /\ l.dialog = "Failed to send email"

\* C5: a send turn whose transport call fails leaves the form and the
\* context's recipient, subject, partial_body and in_conversation unchanged.
C5_FailedSendKeepsDraft ==
    [][(IsVoice(last') /\ TransportFailed(last')) =>
          /\ UNCHANGED formVars
          /\ current_context'.recipient = current_context.recipient
          /\ current_context'.subject = current_context.subject
          /\ current_context'.partial_body = current_context.partial_body
          /\ current_context'.in_conversation
                 = current_context.in_conversation]_vars

\* the operation is a send attempt: a SEND_EMAIL turn, a fallback send or
\* the Send button
IsSendAttempt(l, s) ==
    \/ l.op = "send_button"
    \/ IsIntentTurn(l, SEND_EMAIL)
    \/ IsFallbackTurn(l) /\ FallbackRule(s, l.command) = 2

\* neither a syntactically valid address nor a known contact name
RecipientInvalid(s) ==
    LET recipient == Strip(s.recipient_var)
    IN  ~is_valid_email(recipient) /\ Lower(recipient) \notin DOMAIN s.contacts

\* C6: a send attempted with an invalid recipient does not call the
\* transport, shows a validation error and leaves form and context unchanged.
C6_InvalidRecipientKeepsDraft ==
    [][(IsSendAttempt(last', App) /\ RecipientInvalid(App)) =>
          /\ last'.sent = NoCall
          /\ last'.dialog \in {"Recipient is required", "Invalid email address"}
          /\ UNCHANGED formVars
          /\ UNCHANGED current_context]_vars

\* C7: after a sequence of COMPOSE_EMAIL analyses the draft holds, per field,
\* the value most recently populated (None/empty if never), the form shows
\* it (the recipient through the contact lookup), and processing any
\* COMPOSE_EMAIL analysis twice in a row leaves the draft as after once.
C7_LastWriteWins ==
    /\ current_context.recipient = LastSet(hist, "recipient")
    /\ current_context.subject = LastSet(hist, "subject")
    /\ current_context.partial_body = LastSet(hist, "body")
    /\ subject_var = Shown(LastSet(hist, "subject"))
    /\ message_text = Shown(LastSet(hist, "body"))
    /\ recipient_var =
           LET r == LastSet(hist, "recipient")
           IN  IF r = None THEN <<>> ELSE ContactsGet(contacts, Lower(r), r)
    /\ \A analysis \in ComposeAnalyses :
           LET once == process_voice_command(App, AnyCommand, analysis,
                                             Declined)
               twice == process_voice_command(once, AnyCommand, analysis,
                                              Declined)
           IN  Draft(twice) = Draft(once)

\* two turns: the first sets the recipient, the second only the subject
C7_Witness ==
    /\ Len(hist) = 2
    /\ hist[1].recipient = Bob /\ ~Truthy(hist[1].subject)
    /\ hist[2].recipient = Missing /\ hist[2].subject = Hi
    /\ current_context.recipient = Bob
    /\ current_context.subject = Hi
    /\ current_context.partial_body = None

\* a field the analysis does not carry: the key is missing or null
Absent(v) == v \in {Missing, None}

\* C8: in a COMPOSE_EMAIL or CONTINUE_BODY turn, a field absent from the
\* analysis leaves a populated value of that field unchanged, in the context
\* and in the form.
C8_AbsentKeepsPopulated ==
    [][(IsIntentTurn(last', COMPOSE_EMAIL) \/ IsIntentTurn(last', CONTINUE_BODY))
       =>
          /\ Absent(last'.analysis.recipient) =>
                /\ Truthy(current_context.recipient) =>
                       current_context'.recipient = current_context.recipient
                /\ recipient_var # <<>> => recipient_var' = recipient_var
          /\ Absent(last'.analysis.subject) =>
                /\ Truthy(current_context.subject) =>
                       current_context'.subject = current_context.subject
                /\ subject_var # <<>> => subject_var' = subject_var
          /\ Absent(last'.analysis.body) =>
                /\ Truthy(current_context.partial_body) =>
                       current_context'.partial_body
                           = current_context.partial_body
                /\ message_text # <<>> => message_text' = message_text]_vars

\* C9: a CONTINUE_BODY turn with new body N gives B, one space, N when
\* continue_previous is true and the current body B is non-empty, and N
\* alone otherwise.
C9_AppendOrReplace ==
    [][(IsIntentTurn(last', CONTINUE_BODY) /\ ~Absent(last'.analysis.body)) =>
          LET B == Strip(MessageGet(App))
              N == last'.analysis.body
              result == IF last'.analysis.continue_previous = PyTrue
                           /\ B # <<>>
                        THEN B \o <<" ">> \o N
                        ELSE N
          IN  /\ message_text' = result
              /\ current_context'.partial_body = result]_vars

\* "Hello" continued with "world"
C9_Witness ==
    /\ IsIntentTurn(last, CONTINUE_BODY)
    /\ last.analysis.continue_previous = PyTrue
    /\ last.analysis.body = world
    /\ message_text = Hello \o <<" ">> \o world
    /\ current_context.partial_body = message_text

\* the last operation was a voice turn that sets or appends draft content
ContentTurn(l) ==
    \/ /\ IsIntentTurn(l, COMPOSE_EMAIL)
       /\ \/ Truthy(l.analysis.recipient)
          \/ Truthy(l.analysis.subject)
          \/ Truthy(l.analysis.body)
    \/ IsIntentTurn(l, CONTINUE_BODY)
    \/ /\ IsFallbackTurn(l)
       /\ Contains(Lower(l.command), kwSend)
       /\ Contains(Lower(l.command), kwEmail)
       /\ Contains(Lower(l.command), kwTo)

\* C10: after a turn that sets or appends draft content, in_conversation
\* is True.
C10_ContentTurnEntersConversation ==
    ContentTurn(last) => current_context.in_conversation

\* C11: a HELP, ADD_CONTACT or UNKNOWN turn leaves in_conversation,
\* recipient, subject and partial_body of the context unchanged.
C11_NoContentTurnKeepsContext ==
    [][(\/ IsIntentTurn(last', HELP)
        \/ IsIntentTurn(last', ADD_CONTACT)
        \/ IsIntentTurn(last', UNKNOWN))
       =>
          /\ current_context'.in_conversation = current_context.in_conversation
          /\ current_context'.recipient = current_context.recipient
          /\ current_context'.subject = current_context.subject
          /\ current_context'.partial_body = current_context.partial_body]_vars

\* the application state is what the fallback parser makes of the utterance
IsFallbackOutcome(command) ==
    \E env \in Envs :
        LET r == handle_command_fallback(
                     [App EXCEPT !.status_text = "Processing..."], command, env)
        IN  /\ current_context' = r.current_context
            /\ recipient_var' = r.recipient_var
            /\ subject_var' = r.subject_var
            /\ message_text' = r.message_text
            /\ status_text' = r.status_text
            /\ last'.sent = r.sent
            /\ last'.dialog = r.dialog

ClearAndSendEmail == <<"c","l","e","a","r"," ","a","n","d"," ","s","e","n","d"," ","e","m","a","i","l">>
SendEmailToTom == <<"s","e","n","d"," ","e","m","a","i","l"," ","t","o"," ","t","o","m">>
FallbackCommands == Commands \cup {ClearAndSendEmail, SendEmailToTom}

SeedTurn ==
    \E analysis \in ComposeAnalyses :
    \E r \in {process_voice_command(App, AnyCommand, analysis, Declined)} :
        /\ Commit(r, "voice", analysis, AnyCommand)
        /\ UNCHANGED <<hist, voiceVars>>

FallbackStep ==
    \E command \in FallbackCommands :
    \E env \in (IF FallbackRule(App, command) = 2 THEN Envs ELSE {Declined}) :
    \E r \in {process_voice_command(App, command, NoAnalysis, env)} :
        /\ Commit(r, "voice", NoAnalysis, command)
        /\ UNCHANGED <<hist, voiceVars>>

NextFallback == SeedTurn \/ FallbackStep

SpecFallback == Init /\ [][NextFallback]_vars

\* the utterance contains both "send" and "email"
SendAndEmail(command) ==
    Contains(Lower(command), kwSend) /\ Contains(Lower(command), kwEmail)

\* _send_email ran during the operation: every path through it shows a dialog
SendTriggered(l) == l.dialog # "none"

\* C13: a fallback utterance with "send" and "email" triggers neither a send
\* nor a clear; a send is triggered only by an utterance with "send" that
\* does not match rule 1, with a non-empty recipient in the form.
C13_FallbackPriority ==
    [][IsFallbackTurn(last') =>
          /\ SendAndEmail(last'.command) =>
                /\ ~SendTriggered(last')
                /\ last'.sent = NoCall
                /\ status_text' # "Form cleared"
                /\ subject_var' = subject_var
                /\ message_text' = message_text
                /\ current_context' = current_context
          /\ SendTriggered(last') =>
                /\ Contains(Lower(last'.command), kwSend)
                /\ ~SendAndEmail(last'.command)
                /\ recipient_var # <<>>]_vars

\* "clear and send email" said over a complete draft: nothing sent or cleared
C13_Witness ==
    /\ IsFallbackTurn(last)
    /\ last.command = ClearAndSendEmail
    /\ recipient_var # <<>>
    /\ subject_var # <<>>
    /\ message_text # <<>>
    /\ last.sent = NoCall

\* the whitespace-delimited tokens of a string, in order
RECURSIVE Words(_)
Words(str) ==
    LET t == LStrip(str)
        ends == {i \in 1..Len(t) : t[i] \in Whitespace}
        n == IF ends = {} THEN Len(t)
             ELSE (CHOOSE i \in ends : \A j \in ends : i <= j) - 1
    IN  IF t = <<>> THEN <<>>
        ELSE <<SubSeq(t, 1, n)>> \o Words(SubSeq(t, n + 1, Len(t)))

\* the positions of the word "to" that are followed by another token
WordToPositions(str) ==
    {i \in 1..(Len(Words(str)) - 1) : Words(str)[i] = kwTo}

\* the first token after the first word "to"
TokenAfterWordTo(str) ==
    LET w == Words(str)
        i == CHOOSE k \in WordToPositions(str) :
                 \A j \in WordToPositions(str) : k <= j
    IN  w[i + 1]

\* C14: a fallback utterance with "send" and "email" and the word "to" puts
\* the first token after the word "to" in the form's recipient and sets the
\* status to "I need more details".
C14_RecipientAfterWordTo ==
    [][(/\ IsFallbackTurn(last')
        /\ SendAndEmail(last'.command)
        /\ WordToPositions(Lower(last'.command)) # {})
       => /\ recipient_var' = TokenAfterWordTo(Lower(last'.command))
          /\ status_text' = "I need more details"]_vars

\* C15: the fallback parser handling "clear" or "start over" empties the
\* recipient, subject and body of the form and resets current_context to its
\* default, whatever the draft and the form held before.
C15_FallbackClearResets ==
    [][(/\ IsFallbackTurn(last')
        /\ Lower(Strip(last'.command)) \in {kwClear, kwStartOver})
       => /\ recipient_var' = <<>>
          /\ subject_var' = <<>>
          /\ message_text' = <<>>
          /\ current_context' = DefaultContext]_vars

C15_Witness ==
    /\ IsFallbackTurn(last)
    /\ Lower(Strip(last.command)) = kwStartOver
    /\ status_text = "Form cleared"
    /\ recipient_var = <<>>
    /\ subject_var = <<>>
    /\ message_text = <<>>
    /\ current_context = DefaultContext

(***************************************************************************)
(* Drafting: COMPOSE_EMAIL and CONTINUE_BODY turns only                    *)
(***************************************************************************)
ContinueStep ==
    \E analysis \in ContinueAnalyses :
    \E r \in {process_voice_command(App, AnyCommand, analysis, Declined)} :
        /\ Commit(r, "voice", analysis, AnyCommand)
        /\ UNCHANGED <<hist, voiceVars>>

NextDraft == SeedTurn \/ ContinueStep

SpecDraft == Init /\ [][NextDraft]_vars

\* the guidance message for a form, by which of its fields are empty
GuidanceFor(r, s, b) ==
    CASE r = <<>> /\ s = <<>> /\ b = <<>> ->
             "I need your recipient, subject, message body"
      [] r = <<>> /\ s = <<>> /\ b # <<>> -> "I need your recipient, subject"
      [] r = <<>> /\ s # <<>> /\ b = <<>> ->
             "I need your recipient, message body"
      [] r = <<>> /\ s # <<>> /\ b # <<>> -> "I need your recipient"
      [] r # <<>> /\ s = <<>> /\ b = <<>> ->
             "I need your subject, message body"
      [] r # <<>> /\ s = <<>> /\ b # <<>> -> "I need your subject"
      [] r # <<>> /\ s # <<>> /\ b = <<>> -> "I need your message body"
      [] OTHER -> "Your email is ready to send. Say 'send it' when ready."

\* a CONTINUE_BODY turn that appended to or replaced the body
BodyUpdated(l) == IsIntentTurn(l, CONTINUE_BODY) /\ ~l.exc

\* C16 (as stated): after a COMPOSE_EMAIL turn or a CONTINUE_BODY turn that
\* appends to or replaces the body, the status is the guidance computed from
\* the visible form.
C16_GuidanceAfterContentTurn ==
    [][(IsIntentTurn(last', COMPOSE_EMAIL) \/ BodyUpdated(last'))
       => status_text' = GuidanceFor(recipient_var', subject_var',
                                     Strip(message_text'))]_vars

\* C16 (amended): after a COMPOSE_EMAIL turn the status is the guidance
\* computed from the visible form (the empty fields among recipient, subject,
\* message body, in that order, or the ready-to-send message); after a
\* CONTINUE_BODY turn that appends to or replaces the body the status is
\* "Message updated".
C16_GuidanceAfterCompose ==
    [][/\ IsIntentTurn(last', COMPOSE_EMAIL)
          => status_text' = GuidanceFor(recipient_var', subject_var',
                                        Strip(message_text'))
       /\ BodyUpdated(last') => status_text' = "Message updated"]_vars

\* a COMPOSE_EMAIL turn over a form with only the recipient filled, the body
\* erased by an earlier failed CONTINUE_BODY turn but still in the context
C16_Witness ==
    /\ IsIntentTurn(last, COMPOSE_EMAIL)
    /\ recipient_var # <<>>
    /\ subject_var = <<>>
    /\ message_text = <<>>
    /\ current_context.partial_body = Hello
    /\ status_text = "I need your subject, message body"

(***************************************************************************)
(* VoiceEmailApp._build_conversation_context                               *)
(***************************************************************************)
RecipientLabel == <<"R","e","c","i","p","i","e","n","t",":"," ">>
SubjectLabel == <<"S","u","b","j","e","c","t",":"," ">>
BodyLabel ==
    <<"P","r","e","v","i","o","u","s"," ","m","e","s","s","a","g","e"," ","c","o","n","t","e","n","t",":"," ">>
DraftPrefix == <<"C","u","r","r","e","n","t"," ","e","m","a","i","l"," ","d","r","a","f","t",":"," ">>

\* "; ".join(parts)
RECURSIVE JoinSemi(_)
JoinSemi(parts) ==
    IF Len(parts) = 0 THEN <<>>
    ELSE IF Len(parts) = 1 THEN parts[1]
    ELSE parts[1] \o <<";", " ">> \o JoinSemi(Tail(parts))

\* a context string that leaves the subject out
context_without_subject(s) ==
    LET c == s.current_context
        context_parts ==
            (IF Truthy(c.recipient)
             THEN <<RecipientLabel \o c.recipient>> ELSE <<>>)
         \o (IF Truthy(c.partial_body)
             THEN <<BodyLabel \o c.partial_body>> ELSE <<>>)
    IN  IF ~c.in_conversation THEN <<>>
        ELSE IF context_parts # <<>>
        THEN DraftPrefix \o JoinSemi(context_parts) \o <<".", " ">>
        ELSE <<>>

build_conversation_context(s) ==
    LET c == s.current_context
        context_parts ==
            (IF Truthy(c.recipient)
             THEN <<RecipientLabel \o c.recipient>> ELSE <<>>)
         \o (IF Truthy(c.subject)
             THEN <<SubjectLabel \o c.subject>> ELSE <<>>)
         \o (IF Truthy(c.partial_body)
             THEN <<BodyLabel \o c.partial_body>> ELSE <<>>)
    IN  IF ~c.in_conversation THEN <<>>
        ELSE IF context_parts # <<>>
        THEN DraftPrefix \o JoinSemi(context_parts) \o <<".", " ">>
        ELSE <<>>

\* the context string lists a field: its label occurs, followed by the value
Lists(str, label, v) == Contains(str, label \o v)

\* C17: the context string built from the current state is empty whenever
\* in_conversation is False; otherwise it lists exactly the fields of
\* current_context that are set (label present iff the field is set, followed
\* by its value), in the order recipient, subject, body.
C17_ContextSummary ==
    LET c == current_context
        str == build_conversation_context(App)
    IN  /\ ~c.in_conversation => str = <<>>
        /\ c.in_conversation =>
              /\ Contains(str, RecipientLabel) <=> Truthy(c.recipient)
              /\ Contains(str, SubjectLabel) <=> Truthy(c.subject)
              /\ Contains(str, BodyLabel) <=> Truthy(c.partial_body)
              /\ Truthy(c.recipient) => Lists(str, RecipientLabel, c.recipient)
              /\ Truthy(c.subject) => Lists(str, SubjectLabel, c.subject)
              /\ Truthy(c.partial_body)
                    => Lists(str, BodyLabel, c.partial_body)
              /\ (Truthy(c.recipient) /\ Truthy(c.subject))
                    => FirstOffset(str, RecipientLabel)
                           < FirstOffset(str, SubjectLabel)
              /\ (Truthy(c.subject) /\ Truthy(c.partial_body))
                    => FirstOffset(str, SubjectLabel)
                           < FirstOffset(str, BodyLabel)
              /\ (Truthy(c.recipient) /\ Truthy(c.partial_body))
                    => FirstOffset(str, RecipientLabel)
                           < FirstOffset(str, BodyLabel)

\* a conversation with all three fields set
C17_Witness ==
    /\ current_context.in_conversation
    /\ current_context.recipient = Bob
    /\ current_context.subject = Hi
    /\ current_context.partial_body = Hello
    /\ build_conversation_context(App) =
           <<"C","u","r","r","e","n","t"," ","e","m","a","i","l"," ","d","r","a","f","t",":"," ","R","e","c","i","p","i","e","n","t",":"," ","B","o","b",";"," ","S","u","b","j","e","c","t",":"," ","H","i",";"," ","P","r","e","v","i","o","u","s"," ","m","e","s","s","a","g","e"," ","c","o","n","t","e","n","t",":"," ","H","e","l","l","o","."," ">>

(***************************************************************************)
(* Contacts: the Save button of the add-contact dialog                     *)
(***************************************************************************)
SpacedAnn == <<" ","A","n","n"," ">>
ann == <<"a","n","n">>
NameEntries == {<<>>, Bob, SpacedAnn}
EmailEntries == {bob, BobAddr, AnnAddr}

\* self.contacts[name] = email
ContactsSet(c, name, email) ==
    [n \in DOMAIN c \cup {name} |-> IF n = name THEN email ELSE c[n]]

\* a Save that stores the name as typed
save_contact_as_typed(s, name_entry, email_entry) ==
    LET name == Strip(name_entry)
        email == Strip(email_entry)
    IN  IF name = <<>> \/ email = <<>>
        THEN [s EXCEPT !.dialog = "Name and email are required"]
        ELSE IF ~is_valid_email(email)
        THEN [s EXCEPT !.dialog = "Invalid email address"]
        ELSE [s EXCEPT !.contacts = ContactsSet(s.contacts, name, email)]

save_contact(s, name_entry, email_entry) ==
    LET name == Lower(Strip(name_entry))
        email == Strip(email_entry)
    IN  IF name = <<>> \/ email = <<>>
        THEN [s EXCEPT !.dialog = "Name and email are required"]
        ELSE IF ~is_valid_email(email)
        THEN [s EXCEPT !.dialog = "Invalid email address"]
        ELSE [s EXCEPT !.contacts = ContactsSet(s.contacts, name, email)]

SaveContact ==
    \E name_entry \in NameEntries : \E email_entry \in EmailEntries :
    \E r \in {save_contact(App, name_entry, email_entry)} :
        /\ Commit(r, "save_contact", NoAnalysis, AnyCommand)
        /\ UNCHANGED <<hist, voiceVars>>

NextContacts == SaveContact \/ SeedTurn

SpecContacts == Init /\ [][NextContacts]_vars

\* the contact names equal to r when case is ignored
NamesMatching(c, r) == {n \in DOMAIN c : Lower(n) = Lower(r)}

\* C18: a COMPOSE_EMAIL turn that sets a recipient r puts in the form the
\* address of the contact whose name equals r case-insensitively when there
\* is one, and r itself otherwise.
C18_RecipientResolution ==
    [][(IsIntentTurn(last', COMPOSE_EMAIL) /\ Truthy(last'.analysis.recipient))
       => LET r == last'.analysis.recipient
          IN  IF NamesMatching(contacts, r) # {}
              THEN \E n \in NamesMatching(contacts, r) :
                       recipient_var' = contacts[n]
              ELSE recipient_var' = r]_vars

\* "Bob" resolved through a contact saved in the dialog as Bob -> a@b.co
C18_Witness ==
    /\ IsIntentTurn(last, COMPOSE_EMAIL)
    /\ last.analysis.recipient = Bob
    /\ DOMAIN contacts = {bob, ann}
    /\ contacts[bob] = AnnAddr
    /\ recipient_var = AnnAddr

(***************************************************************************)
(* Capture workers under fair scheduling: a thread that can run is run,    *)
(* and listen, recognize_google and the turn return (timeout=5,            *)
(* phrase_time_limit=10, voice.py line 48)                                 *)
(***************************************************************************)
Positions == {"idle", "setup", "loop", "listen", "recognize", "turn"}

\* thread t takes its next step: under NextVoice the steps that move a thread
\* that is not idle are those of WorkerSetup(t), WorkerLoop(t),
\* WorkerListen(t), WorkerRecognize(t) and WorkerTurn(t), one of which is
\* enabled at every position but "idle"
WorkerAdvance(t) ==
    /\ threads[t] # "idle"
    /\ \E p \in Positions : threads' = [threads EXCEPT ![t] = p]

SpecVoiceFair ==
    SpecVoice /\ \A t \in Workers : WF_threads(WorkerAdvance(t))

\* the Stop press of the microphone button
StopPressed == listening /\ ~listening' /\ mic_state' = "Start Listening"

\* C19: stop_listening interrupts no worker (a phrase in flight goes on to
\* its dispatch); a worker starts a phrase only from the loop test with the
\* flag set, so with the flag clear it starts no further phrase; and while
\* listening is not started again every worker eventually leaves its loop.
C19_StopIsAFlag ==
    /\ [][/\ StopPressed => threads' = threads
          /\ \A t \in Workers :
                /\ (threads'[t] = "listen" /\ threads[t] # "listen")
                      => (threads[t] = "loop" /\ listening)
                /\ (threads'[t] = "turn" /\ threads[t] # "turn")
                      => threads[t] = "recognize"
                /\ (threads'[t] = "recognize" /\ threads[t] # "recognize")
                      => threads[t] = "listen"]_vars
    /\ ~listening ~> (listening \/ \A t \in Workers : threads[t] = "idle")

\* Stop was pressed during a phrase, which is now being dispatched
C19_Witness ==
    /\ ~listening
    /\ mic_state = "Start Listening"
    /\ \E t \in Workers : threads[t] = "turn"

\* C20: the mail transport is called only with a recipient that is a
\* syntactically valid e-mail address and a non-empty body (so a contact's
\* name in the form reaches send_email as the contact's address).
C20_TransportGetsValidAddress ==
    last.sent # NoCall =>
        /\ is_valid_email(last.sent[1].to)
        /\ Strip(last.sent[1].body) # <<>>

\* the last operation was a voice turn that reset the conversation
ResettingTurn(l) ==
    \/ IsIntentTurn(l, SEND_EMAIL)
    \/ IsIntentTurn(l, CLEAR_FORM)
    \/ IsFallbackTurn(l) /\ status_text = "Form cleared"

\* C21: the draft in current_context agrees with the visible form: a set
\* recipient or subject has a non-empty form field, a set partial_body equals
\* the form's body, and after a voice turn that reset the conversation
\* (in_conversation False) the form is empty.
C21_ContextAgreesWithForm ==
    /\ Truthy(current_context.recipient) => recipient_var # <<>>
    /\ Truthy(current_context.subject) => subject_var # <<>>
    /\ Truthy(current_context.partial_body)
          => message_text = current_context.partial_body
    /\ (ResettingTurn(last) /\ ~current_context.in_conversation)
          => (recipient_var = <<>> /\ subject_var = <<>> /\ message_text = <<>>)

\* C22: every voice turn ends with a status other than "Processing...", the
\* value process_voice_command sets when the turn starts.
C22_TurnLeavesProcessing ==
    IsVoice(last) => status_text # "Processing..."

\* C23: the microphone button reads "Stop Listening" exactly when the
\* listening flag is True, in every reachable state.
C23_ButtonAgreesWithFlag ==
    (mic_state = "Stop Listening") <=> listening

====
